---- MODULE Spec2Model ----
(***************************************************************************)
(* Terminal mode of the ssd1306 driver (src/src/mode/terminal.rs): the     *)
(* logical text cursor, the calls TerminalMode makes on DisplayProperties, *)
(* and the write pointer of the display controller those calls drive.      *)
(*                                                                         *)
(* Every public method of TerminalMode is one action that runs the whole   *)
(* method.  A method is a function from the state before the call (cursor, *)
(* controller, the calls made so far) to the state after it and its        *)
(* Result; `?` is the early return on ok = FALSE.                          *)
(*                                                                         *)
(* The framebuffer driver SSD1306 (src/src/lib.rs) is a second object with *)
(* its own variables and its own specification, SpecFb.                    *)
(***************************************************************************)
EXTENDS Integers, Sequences, FiniteSets, TLC

VARIABLES
    size,     \* DisplaySize of the DisplayProperties, fixed at construction
    cursor,   \* TerminalMode.cursor : Option<Cursor>
    before,   \* the cursor when the last method was called
    dev,      \* the controller: addressing mode and write pointer
    op,       \* the last method called, with its arguments
    result,   \* what that call returned
    log,      \* the DisplayProperties calls that call made, in order
    inner,    \* write_str only: the Result of each print_char it made
    stale,    \* calls since a transport failure that no init or clear has
              \* followed yet, that call included; 0 when there is none
    display_size,   \* SSD1306.display_size, fixed at construction
    buffer,         \* SSD1306.buffer : [u8; 1024], indexed from 0
    iface,          \* what the last SSD1306 method sent through SSD1306.iface
    buffer_before,  \* the buffer when the last SSD1306 method was called
    fbcall          \* the last SSD1306 method called, with its arguments

fbvars == <<display_size, buffer, iface, buffer_before, fbcall>>
termvars == <<size, cursor, before, dev, op, result, log, inner, stale>>
vars == <<size, cursor, before, dev, op, result, log, inner, stale,
          display_size, buffer, iface, buffer_before, fbcall>>

----------------------------------------------------------------------------
(* Bounds of the model.                                                    *)

\* Transport writes of one method call that may fail: the 1st .. MaxFail-th.
MaxFail == 2
\* Longest string handed to write_str.
MaxStrLen == 2
\* Calls other than init and clear made after a transport failure, before a
\* successful init or clear.
MaxStale == 0

----------------------------------------------------------------------------
(* Integer widths.                                                         *)

U8(x) == x % 256

Min(a, b) == IF a <= b THEN a ELSE b

----------------------------------------------------------------------------
(* Geometry: DisplayProperties::get_size / get_dimensions.                 *)

DisplaySizes == {"Display128x64", "Display128x32", "Display96x16"}

get_dimensions(sz) ==
    CASE sz = "Display128x64" -> <<128, 64>>
      [] sz = "Display128x32" -> <<128, 32>>
      [] sz = "Display96x16"  -> <<96, 16>>

\* Variant: the 96x16 display counted as one row of cells.
numchars_OneRow96(sz) ==
    CASE sz = "Display128x64" -> 128
      [] sz = "Display128x32" -> 64
      [] sz = "Display96x16"  -> 12

\* Character cells of the grid, as clear() counts them.
numchars(sz) ==
    CASE sz = "Display128x64" -> 128
      [] sz = "Display128x32" -> 64
      [] sz = "Display96x16"  -> 24

----------------------------------------------------------------------------
(* BitmapCharacter and the font lookup.                                    *)

Blank == <<0, 0, 0, 0, 0, 0, 0, 0>>

Bitmapped(bytes) == [kind |-> "Bitmapped", bytes |-> bytes]
Newline         == [kind |-> "Newline", bytes |-> <<>>]
CarriageReturn  == [kind |-> "CarriageReturn", bytes |-> <<>>]

\* The characters the model prints: a glyph of the font and the two control
\* characters.
Chars == {"A", "\n", "\r"}

to_bitmap(c) ==
    CASE c = "\n" -> Newline
      [] c = "\r" -> CarriageReturn
      [] c = "A"  -> Bitmapped(<<126, 17, 17, 17, 126, 0, 0, 0>>)
      [] OTHER    -> Bitmapped(Blank)

----------------------------------------------------------------------------
(* struct Cursor, Option<Cursor> and CursorWrapEvent.                      *)

NoCursor == [some |-> FALSE, col |-> 0, row |-> 0, width |-> 0, height |-> 0]

NoEvent        == [some |-> FALSE, row |-> 0]
CursorWrapEvent(r) == [some |-> TRUE, row |-> r]

\* Variant: the grid is kept in pixels, not in character cells.
Cursor_new_InPixels(width_pixels, height_pixels) ==
    [some |-> TRUE, col |-> 0, row |-> 0,
     width |-> width_pixels, height |-> height_pixels]

Cursor_new(width_pixels, height_pixels) ==
    [some |-> TRUE, col |-> 0, row |-> 0,
     width |-> width_pixels \div 8, height |-> height_pixels \div 8]

\* Variant: the row is incremented without `% self.height`.
Cursor_advance_NoRowWrap(cur) ==
    LET col == U8(cur.col + 1) % cur.width
    IN  IF col = 0
        THEN LET row == U8(cur.row + 1)
             IN  [cursor |-> [cur EXCEPT !.col = col, !.row = row],
                  event  |-> CursorWrapEvent(row)]
        ELSE [cursor |-> [cur EXCEPT !.col = col], event |-> NoEvent]

\* Variant: the wrap event carries the row the cursor left.
Cursor_advance_OldRowEvent(cur) ==
    LET col == U8(cur.col + 1) % cur.width
    IN  IF col = 0
        THEN LET row == U8(cur.row + 1) % cur.height
             IN  [cursor |-> [cur EXCEPT !.col = col, !.row = row],
                  event  |-> CursorWrapEvent(cur.row)]
        ELSE [cursor |-> [cur EXCEPT !.col = col], event |-> NoEvent]

\* advance(&mut self) -> Option<CursorWrapEvent>: the cursor after, and the
\* value returned.
Cursor_advance(cur) ==
    LET col == U8(cur.col + 1) % cur.width
    IN  IF col = 0
        THEN LET row == U8(cur.row + 1) % cur.height
             IN  [cursor |-> [cur EXCEPT !.col = col, !.row = row],
                  event  |-> CursorWrapEvent(row)]
        ELSE [cursor |-> [cur EXCEPT !.col = col], event |-> NoEvent]

\* Variant: column and row taken in the other order.
Cursor_set_position_Swapped(cur, col, row) ==
    [cur EXCEPT !.col = Min(row, U8(cur.width - 1)),
                !.row = Min(col, U8(cur.height - 1))]

Cursor_set_position(cur, col, row) ==
    [cur EXCEPT !.col = Min(col, U8(cur.width - 1)),
                !.row = Min(row, U8(cur.height - 1))]

Cursor_get_position(cur) == <<cur.col, cur.row>>

Cursor_get_dimensions(cur) == <<cur.width, cur.height>>

\* Variant: the column under the cursor is not counted.
Cursor_get_remaining_columns_in_line_OffByOne(cur) ==
    U8(cur.width - cur.col - 1)

Cursor_get_remaining_columns_in_line(cur) == U8(cur.width - cur.col)

----------------------------------------------------------------------------
(* The display controller behind the transport.  In Page mode a data byte  *)
(* moves the column pointer on by one, wrapping at the controller's column *)
(* range, and the page pointer moves only on a row command.  In Horizontal *)
(* mode the pointer walks the draw area row after row.                     *)

ControllerCols  == 128
ControllerPages == 8

DevReset ==
    [mode |-> "Page", col |-> 0, page |-> 0,
     c0 |-> 0, c1 |-> ControllerCols - 1, p0 |-> 0, p1 |-> ControllerPages - 1]

DevData(d, n) ==
    IF d.mode = "Page"
    THEN [d EXCEPT !.col = (d.col + n) % ControllerCols]
    ELSE LET w   == d.c1 - d.c0 + 1
             h   == d.p1 - d.p0 + 1
             at  == (d.page - d.p0) * w + (d.col - d.c0)
             to  == (at + n) % (w * h)
         IN  [d EXCEPT !.col = d.c0 + (to % w), !.page = d.p0 + (to \div w)]

\* One call on DisplayProperties, as the log keeps it.
Call(name, v, v2, data, mode) ==
    [call |-> name, v |-> v, v2 |-> v2, data |-> data, mode |-> mode, ok |-> TRUE]

CSetColumn(v)      == Call("set_column", v, 0, <<>>, "")
CSetRow(v)         == Call("set_row", v, 0, <<>>, "")
CDraw(bytes)       == Call("draw", 0, 0, bytes, "")
CChangeMode(m)     == Call("change_mode", 0, 0, <<>>, m)
CInitWithMode(m)   == Call("init_with_mode", 0, 0, <<>>, m)
CSetDrawArea(w, h) == Call("set_draw_area", w, h, <<>>, "")

\* What a call that reached the controller does to it.
DevApply(d, w) ==
    CASE w.call = "set_column"     -> [d EXCEPT !.col = w.v % ControllerCols]
      [] w.call = "set_row"        -> [d EXCEPT !.page = (w.v \div 8) % ControllerPages]
      [] w.call = "draw"           -> DevData(d, Len(w.data))
      [] w.call = "change_mode"    -> [d EXCEPT !.mode = w.mode]
      [] w.call = "init_with_mode" -> [d EXCEPT !.mode = w.mode]
      [] w.call = "set_draw_area"  ->
            [d EXCEPT !.c0 = 0, !.c1 = w.v - 1, !.p0 = 0, !.p1 = (w.v2 \div 8) - 1,
                      !.col = 0, !.page = 0]

----------------------------------------------------------------------------
(* A method in progress: the cursor, the controller and the calls made so  *)
(* far.  `fails` holds the positions, among the calls of one method, of    *)
(* the transport writes that fail; a failed call leaves the controller as  *)
(* it was.                                                                 *)

Ok(st)  == [st |-> st, ok |-> TRUE]
Err(st) == [st |-> st, ok |-> FALSE]

Send(st, w, fails) ==
    LET good == (Len(st.log) + 1) \notin fails
    IN  [st |-> [st EXCEPT !.log = Append(@, [w EXCEPT !.ok = good]),
                           !.dev = IF good THEN DevApply(@, w) ELSE @],
         ok |-> good]

\* DisplayProperties, as TerminalMode calls it.
set_column(st, v, fails)      == Send(st, CSetColumn(v), fails)
set_row(st, v, fails)         == Send(st, CSetRow(v), fails)
draw(st, bytes, fails)        == Send(st, CDraw(bytes), fails)
change_mode(st, m, fails)     == Send(st, CChangeMode(m), fails)
init_with_mode(st, m, fails)  == Send(st, CInitWithMode(m), fails)
set_draw_area(st, w, h, fails) == Send(st, CSetDrawArea(w, h), fails)

----------------------------------------------------------------------------
(* impl TerminalMode                                                       *)

\* ensure_cursor(&mut self) -> Result<&mut Cursor, ()>
ensure_cursor(st) == IF st.cursor.some THEN Ok(st) ELSE Err(st)

\* Variant: a wrap also sends the column pointer.
advance_cursor_WithColumn(st, fails) ==
    IF ~ensure_cursor(st).ok THEN Err(st)
    ELSE LET a  == Cursor_advance(st.cursor)
             s1 == [st EXCEPT !.cursor = a.cursor]
             r1 == set_column(s1, 0, fails)
         IN  IF a.event.some
             THEN IF ~r1.ok THEN r1
                  ELSE set_row(r1.st, U8(a.event.row * 8), fails)
             ELSE Ok(s1)

advance_cursor(st, fails) ==
    IF ~ensure_cursor(st).ok THEN Err(st)
    ELSE LET a  == Cursor_advance(st.cursor)
             s1 == [st EXCEPT !.cursor = a.cursor]
         IN  IF a.event.some
             THEN set_row(s1, U8(a.event.row * 8), fails)
             ELSE Ok(s1)

\* Variant: the cursor is installed before the pointers are sent.
reset_pos_CursorFirst(st, sz, fails) ==
    LET d  == get_dimensions(sz)
        s0 == [st EXCEPT !.cursor = Cursor_new(d[1], d[2])]
        r1 == set_column(s0, 0, fails)
        r2 == set_row(r1.st, 0, fails)
    IN  IF ~r1.ok THEN r1
        ELSE IF ~r2.ok THEN r2
        ELSE Ok(r2.st)

reset_pos(st, sz, fails) ==
    LET r1 == set_column(st, 0, fails)
        r2 == set_row(r1.st, 0, fails)
        d  == get_dimensions(sz)
    IN  IF ~r1.ok THEN r1
        ELSE IF ~r2.ok THEN r2
        ELSE Ok([r2.st EXCEPT !.cursor = Cursor_new(d[1], d[2])])

init(st, sz, fails) ==
    LET r1 == init_with_mode(st, "Page", fails)
    IN  IF ~r1.ok THEN r1 ELSE reset_pos(r1.st, sz, fails)

\* for _ in 0..k { draw(&[0; 8])?; }
\* The loop makes the same call k times and stops at the first that fails, so
\* its effect is written in one step: `done` draws succeed, then one fails
\* if a failing write falls among the k.
ClearLoop(st, k, fails) ==
    LET n    == Len(st.log)
        bad  == {i \in fails : n < i /\ i <= n + k}
        done == IF bad = {} THEN k
                ELSE (CHOOSE i \in bad : \A j \in bad : i <= j) - n - 1
        good == [i \in 1 .. done |-> CDraw(Blank)]
        last == IF bad = {} THEN <<>> ELSE <<[CDraw(Blank) EXCEPT !.ok = FALSE]>>
    IN  [st |-> [st EXCEPT !.log = @ \o good \o last,
                           !.dev = DevData(@, done * Len(Blank))],
         ok |-> bad = {}]

clear(st, sz, fails) ==
    LET r1 == change_mode(st, "Horizontal", fails)
        d  == get_dimensions(sz)
        r2 == set_draw_area(r1.st, d[1], d[2], fails)
        r3 == ClearLoop(r2.st, numchars(sz), fails)
        r4 == change_mode(r3.st, "Page", fails)
    IN  IF ~r1.ok THEN r1
        ELSE IF ~r2.ok THEN r2
        ELSE IF ~r3.ok THEN r3
        ELSE IF ~r4.ok THEN r4
        ELSE reset_pos(r4.st, sz, fails)

\* for _ in 0..k { draw(&[0x00; 8])?; advance_cursor()?; }
RECURSIVE NewlineLoop(_, _, _)
NewlineLoop(st, k, fails) ==
    IF k = 0 THEN Ok(st)
    ELSE LET r1 == draw(st, Blank, fails)
             r2 == advance_cursor(r1.st, fails)
         IN  IF ~r1.ok THEN r1
             ELSE IF ~r2.ok THEN r2
             ELSE NewlineLoop(r2.st, k - 1, fails)

print_char(st, c, fails) ==
    LET b == to_bitmap(c)
    IN  CASE b.kind = "Bitmapped" ->
               LET r1 == draw(st, b.bytes, fails)
               IN  IF ~r1.ok THEN r1 ELSE advance_cursor(r1.st, fails)
          [] b.kind = "Newline" ->
               IF ~ensure_cursor(st).ok THEN Err(st)
               ELSE NewlineLoop(st, Cursor_get_remaining_columns_in_line(st.cursor),
                                fails)
          [] b.kind = "CarriageReturn" ->
               LET r1 == set_column(st, 0, fails)
               IN  IF ~r1.ok THEN r1
                   ELSE IF ~ensure_cursor(r1.st).ok THEN Err(r1.st)
                   ELSE LET cur_line == Cursor_get_position(r1.st.cursor)[2]
                        IN  Ok([r1.st EXCEPT !.cursor =
                                   Cursor_set_position(@, 0, cur_line)])

\* Variant: a missing cursor reads as the origin instead of failing.
get_position_OrOrigin(st) ==
    IF st.cursor.some
    THEN [ok |-> TRUE, val |-> Cursor_get_position(st.cursor)]
    ELSE [ok |-> TRUE, val |-> <<0, 0>>]

\* get_position(&self) -> Result<(u8, u8), ()>
get_position(st) ==
    IF st.cursor.some
    THEN [ok |-> TRUE, val |-> Cursor_get_position(st.cursor)]
    ELSE [ok |-> FALSE, val |-> <<>>]

\* Variant: the bounds test is `>` where the code has `>=`.
set_position_OffByOne(st, column, row, fails) ==
    IF ~ensure_cursor(st).ok THEN Err(st)
    ELSE LET dim == Cursor_get_dimensions(st.cursor)
         IN  IF column > dim[1] \/ row > dim[2] THEN Err(st)
             ELSE LET r1 == set_column(st, U8(column * 8), fails)
                      r2 == set_row(r1.st, U8(row * 8), fails)
                  IN  IF ~r1.ok THEN r1
                      ELSE IF ~r2.ok THEN r2
                      ELSE Ok([r2.st EXCEPT !.cursor =
                                  Cursor_set_position(@, column, row)])

\* Variant: the pointers are sent in cells, not in pixels.
set_position_Unscaled(st, column, row, fails) ==
    IF ~ensure_cursor(st).ok THEN Err(st)
    ELSE LET dim == Cursor_get_dimensions(st.cursor)
         IN  IF column >= dim[1] \/ row >= dim[2] THEN Err(st)
             ELSE LET r1 == set_column(st, column, fails)
                      r2 == set_row(r1.st, row, fails)
                  IN  IF ~r1.ok THEN r1
                      ELSE IF ~r2.ok THEN r2
                      ELSE Ok([r2.st EXCEPT !.cursor =
                                  Cursor_set_position(@, column, row)])

set_position(st, column, row, fails) ==
    IF ~ensure_cursor(st).ok THEN Err(st)
    ELSE LET dim == Cursor_get_dimensions(st.cursor)
         IN  IF column >= dim[1] \/ row >= dim[2] THEN Err(st)
             ELSE LET r1 == set_column(st, U8(column * 8), fails)
                      r2 == set_row(r1.st, U8(row * 8), fails)
                  IN  IF ~r1.ok THEN r1
                      ELSE IF ~r2.ok THEN r2
                      ELSE Ok([r2.st EXCEPT !.cursor =
                                  Cursor_set_position(@, column, row)])

\* impl fmt::Write: s.chars().map(|c| self.print_char(c)).last(); Ok(())
\* The state after the last character and the Result of every print_char.
RECURSIVE PrintAll(_, _, _, _)
PrintAll(st, s, fails, rs) ==
    IF s = <<>> THEN [st |-> st, results |-> rs]
    ELSE LET r == print_char(st, Head(s), fails)
         IN  PrintAll(r.st, Tail(s), fails, Append(rs, r.ok))

write_str(st, s, fails) ==
    LET p == PrintAll(st, s, fails, <<>>)
    IN  [st |-> p.st, ok |-> TRUE, results |-> p.results]

----------------------------------------------------------------------------
(* The framebuffer driver SSD1306<DI> (src/src/lib.rs): a 1024-byte pixel  *)
(* buffer, one byte for eight vertical pixels, and the commands and data   *)
(* it sends through its interface.  The Result of a send is not looked at, *)
(* so a method sends the same sequence whether or not the transport works. *)

\* [u8; 1024]
BufLen == 1024

\* The variants of DisplaySize that flush and init match on.
FbSizes == {"Display128x64", "Display128x32"}

\* DisplaySize::dimensions: pixel width and height.
dimensions(sz) ==
    CASE sz = "Display128x64" -> <<128, 64>>
      [] sz = "Display128x32" -> <<128, 32>>

\* [0; 1024]
ZeroBuffer == [i \in 0 .. BufLen - 1 |-> 0]

\* 1 << k, as a u8, for k in 0 .. 7.
Shl1(k) == 2 ^ k

\* Bit k of byte b.
BitOf(b, k) == (b \div Shl1(k)) % 2

\* b | bit and b & !bit for a one-bit mask.
BitOr(b, bit) == IF (b \div bit) % 2 = 1 THEN b ELSE b + bit
BitAndNot(b, bit) == IF (b \div bit) % 2 = 1 THEN b - bit ELSE b

\* A command and a data block handed to the interface.
Cmd(name, params) == [cmd |-> name, data |-> <<>>, params |-> params]
Data(bytes) == [cmd |-> "send_data", data |-> bytes, params |-> <<>>]

\* Page from a pixel row: the page the row lies in.
PageFrom(v) == v \div 8

\* &buffer[0..n] as a sequence.
Slice(buf, n) == [i \in 1 .. n |-> buf[i - 1]]

\* SSD1306::new
SSD1306_new(sz) == [display_size |-> sz, buffer |-> ZeroBuffer, iface |-> <<>>]

FbOk(st) == [st |-> st, outcome |-> "ok"]
\* An index past the end of the buffer: the bounds check of the array panics.
FbPanic(st) == [st |-> st, outcome |-> "panic"]

\* Variant: clear() zeroes the bytes the display shows only.
SSD1306_clear_ActivePrefix(st) ==
    LET d == dimensions(st.display_size)
        n == (d[1] * d[2]) \div 8
    IN  FbOk([st EXCEPT !.buffer = [i \in 0 .. BufLen - 1 |->
                                        IF i < n THEN 0 ELSE st.buffer[i]]])

SSD1306_clear(st) == FbOk([st EXCEPT !.buffer = ZeroBuffer])

\* Variant: flush() sends all 1024 bytes on either display.
SSD1306_flush_WholeBuffer(st) ==
    LET d == dimensions(st.display_size)
    IN  FbOk([st EXCEPT !.iface = st.iface \o
            << Cmd("ColumnAddress", <<0, U8(d[1] - 1)>>),
               Cmd("PageAddress", <<PageFrom(0), PageFrom(U8(d[2] - 1))>>),
               Data(Slice(st.buffer, BufLen)) >>])

SSD1306_flush(st) ==
    LET d == dimensions(st.display_size)
    IN  FbOk([st EXCEPT !.iface = st.iface \o
            << Cmd("ColumnAddress", <<0, U8(d[1] - 1)>>),
               Cmd("PageAddress", <<PageFrom(0), PageFrom(U8(d[2] - 1))>>),
               CASE st.display_size = "Display128x64" -> Data(Slice(st.buffer, BufLen))
                 [] st.display_size = "Display128x32" -> Data(Slice(st.buffer, 512)) >>])

\* Variant: the byte is overwritten with the mask.
SSD1306_set_pixel_WholeByte(st, x, y, value) ==
    LET d   == dimensions(st.display_size)
        idx == (y \div 8) * d[1] + x
        bit == Shl1(y % 8)
    IN  IF idx >= BufLen THEN FbPanic(st)
        ELSE FbOk([st EXCEPT !.buffer[idx] = IF value = 0 THEN 0 ELSE bit])

\* Variant: bit 7 is the topmost pixel of the byte.
SSD1306_set_pixel_MsbFirst(st, x, y, value) ==
    LET d   == dimensions(st.display_size)
        idx == (y \div 8) * d[1] + x
        bit == Shl1(7 - (y % 8))
    IN  IF idx >= BufLen THEN FbPanic(st)
        ELSE FbOk([st EXCEPT !.buffer[idx] =
                       IF value = 0 THEN BitAndNot(@, bit) ELSE BitOr(@, bit)])

SSD1306_set_pixel(st, x, y, value) ==
    LET d   == dimensions(st.display_size)
        idx == (y \div 8) * d[1] + x
        bit == Shl1(y % 8)
    IN  IF idx >= BufLen THEN FbPanic(st)
        ELSE FbOk([st EXCEPT !.buffer[idx] =
                       IF value = 0 THEN BitAndNot(@, bit) ELSE BitOr(@, bit)])

\* The commands of init() before and after the COM pin configuration.
InitHead(h) ==
    << Cmd("DisplayOn", <<FALSE>>),
       Cmd("DisplayClockDiv", <<8, 0>>),
       Cmd("Multiplex", <<U8(h - 1)>>),
       Cmd("DisplayOffset", <<0>>),
       Cmd("StartLine", <<0>>),
       Cmd("ChargePump", <<TRUE>>),
       Cmd("AddressMode", <<"Horizontal">>),
       Cmd("SegmentRemap", <<TRUE>>),
       Cmd("ReverseComDir", <<TRUE>>) >>

ComPinConfig(sz) ==
    CASE sz = "Display128x32" -> Cmd("ComPinConfig", <<FALSE, FALSE>>)
      [] sz = "Display128x64" -> Cmd("ComPinConfig", <<TRUE, FALSE>>)

InitTail ==
    << Cmd("Contrast", <<143>>),
       Cmd("PreChargePeriod", <<1, 15>>),
       Cmd("VcomhDeselect", <<"Auto">>),
       Cmd("AllOn", <<FALSE>>),
       Cmd("Invert", <<FALSE>>),
       Cmd("EnableScroll", <<FALSE>>) >>

\* Variant: the display is switched on before the COM pins are configured.
SSD1306_init_OnBeforeComPins(st) ==
    LET d == dimensions(st.display_size)
    IN  FbOk([st EXCEPT !.iface = st.iface \o InitHead(d[2])
                  \o <<Cmd("DisplayOn", <<TRUE>>)>>
                  \o <<ComPinConfig(st.display_size)>> \o InitTail])

SSD1306_init(st) ==
    LET d == dimensions(st.display_size)
    IN  FbOk([st EXCEPT !.iface = st.iface \o InitHead(d[2])
                  \o <<ComPinConfig(st.display_size)>> \o InitTail
                  \o <<Cmd("DisplayOn", <<TRUE>>)>>])

\* The last framebuffer method called, its arguments and how it ended.
FbCall(name, x, y, value, outcome) ==
    [name |-> name, x |-> x, y |-> y, value |-> value, outcome |-> outcome]

\* No framebuffer driver constructed.
NoFb == [display_size |-> "", buffer |-> <<>>, iface |-> <<>>]

----------------------------------------------------------------------------
(* The state machine: TerminalMode::new, then any method in any order.     *)
(* A call meets at most one failing transport write.  After a call in      *)
(* which a write failed the caller is to run init or clear before going    *)
(* on; `stale` counts the calls since such a failure, that call included,  *)
(* and the model makes other calls only while stale <= MaxStale.           *)

\* The sets of failing writes a call may meet.
FailSets == {{}} \cup {{i} : i \in 1 .. MaxFail}

\* Strings of at most n characters.
RECURSIVE Strings(_)
Strings(n) ==
    IF n = 0 THEN {<<>>}
    ELSE LET shorter == Strings(n - 1)
         IN  shorter \cup {Append(s, c) : s \in shorter, c \in Chars}

\* The strings handed to write_str.
StrArgs == Strings(MaxStrLen)

\* Arguments of set_position: the first and the last column and row of the
\* grid, the first column and row past it, and the largest u8.
PosArgs(sz) ==
    LET w == get_dimensions(sz)[1] \div 8
        h == get_dimensions(sz)[2] \div 8
    IN  ({0, w - 1, w} \X {0, h - 1, h}) \cup {<<255, 255>>}

OpRec(name, c, col, row, s) ==
    [name |-> name, c |-> c, col |-> col, row |-> row, s |-> s]

NoVal == <<>>

TransportFailed(l) == \E i \in DOMAIN l : ~l[i].ok

\* The state a method starts from: no call made yet.
Start == [cursor |-> cursor, dev |-> dev, log |-> <<>>]

Finish(r, val, o, rs) ==
    /\ cursor' = r.st.cursor
    /\ before' = cursor
    /\ dev' = r.st.dev
    /\ log' = r.st.log
    /\ result' = [ok |-> r.ok, val |-> val]
    /\ op' = o
    /\ inner' = rs
    /\ stale' = IF TransportFailed(r.st.log) \/ (stale > 0 /\ ~(o.name \in {"init", "clear"}))
                THEN Min(stale + 1, MaxStale + 1)
                ELSE IF o.name \in {"init", "clear"} /\ r.ok THEN 0
                ELSE stale
    /\ UNCHANGED <<size, fbvars>>

\* TerminalMode::new(properties): no cursor; the controller after reset.
Init ==
    /\ size \in DisplaySizes
    /\ cursor = NoCursor
    /\ before = NoCursor
    /\ dev = DevReset
    /\ op = OpRec("new", "", 0, 0, <<>>)
    /\ result = [ok |-> TRUE, val |-> NoVal]
    /\ log = <<>>
    /\ inner = <<>>
    /\ stale = 0
    /\ display_size = NoFb.display_size
    /\ buffer = NoFb.buffer
    /\ iface = NoFb.iface
    /\ buffer_before = NoFb.buffer
    /\ fbcall = FbCall("none", 0, 0, 0, "ok")

InitOp ==
    \E fails \in FailSets :
        Finish(init(Start, size, fails), NoVal,
               OpRec("init", "", 0, 0, <<>>), <<>>)

ClearOp ==
    \E fails \in FailSets :
        Finish(clear(Start, size, fails), NoVal,
               OpRec("clear", "", 0, 0, <<>>), <<>>)

PrintCharOp ==
    /\ stale <= MaxStale
    /\ \E c \in Chars, fails \in FailSets :
        Finish(print_char(Start, c, fails), NoVal,
               OpRec("print_char", c, 0, 0, <<>>), <<>>)

GetPositionOp ==
    /\ stale <= MaxStale
    /\ LET g == get_position(Start)
       IN  Finish([st |-> Start, ok |-> g.ok], g.val,
                  OpRec("get_position", "", 0, 0, <<>>), <<>>)

SetPositionOp ==
    /\ stale <= MaxStale
    /\ \E p \in PosArgs(size), fails \in FailSets :
        Finish(set_position(Start, p[1], p[2], fails), NoVal,
               OpRec("set_position", "", p[1], p[2], <<>>), <<>>)

WriteStrOp ==
    /\ stale <= MaxStale
    /\ \E s \in StrArgs, fails \in FailSets :
        LET r == write_str(Start, s, fails)
        IN  Finish(r, NoVal, OpRec("write_str", "", 0, 0, s), r.results)

Next ==
    \/ InitOp
    \/ ClearOp
    \/ PrintCharOp
    \/ GetPositionOp
    \/ SetPositionOp

Spec == Init /\ [][Next]_vars

\* The same machine with fmt::Write::write_str among the calls.
NextStr ==
    \/ Next
    \/ WriteStrOp

SpecStr == Init /\ [][NextStr]_vars

\* A caller that runs init() until it succeeds and from then on clears and
\* prints without looking at the Result of the call before.
InitUntilOkOp ==
    /\ ~cursor.some
    /\ InitOp

ClearUncheckedOp ==
    /\ cursor.some
    /\ ClearOp

PrintCharUncheckedOp ==
    /\ cursor.some
    /\ \E c \in Chars, fails \in FailSets :
        Finish(print_char(Start, c, fails), NoVal,
               OpRec("print_char", c, 0, 0, <<>>), <<>>)

NextUnchecked ==
    \/ InitUntilOkOp
    \/ ClearUncheckedOp
    \/ PrintCharUncheckedOp

SpecUnchecked == Init /\ [][NextUnchecked]_vars

----------------------------------------------------------------------------
(* The framebuffer state machine: SSD1306::new, then set_pixel, clear,     *)
(* flush and init in any order.  A panic ends the program.                 *)

\* Pixels handed to set_pixel: the corners of the display, two pixels of one
\* byte, and the first pixels past the right edge, past the bottom edge and
\* past the 64th row.
PixelArgs(sz) ==
    LET w == dimensions(sz)[1]
        h == dimensions(sz)[2]
    IN  {<<0, 0>>, <<5, 10>>, <<5, 13>>, <<w - 1, h - 1>>,
         <<w, 0>>, <<0, h>>, <<0, 64>>}

\* Values handed to set_pixel.
PixelValues == {0, 1, 255}

FbStart == [display_size |-> display_size, buffer |-> buffer, iface |-> <<>>]

FbFinish(r, name, x, y, value) ==
    /\ buffer' = r.st.buffer
    /\ iface' = r.st.iface
    /\ buffer_before' = buffer
    /\ fbcall' = FbCall(name, x, y, value, r.outcome)
    /\ UNCHANGED <<display_size, termvars>>

\* SSD1306::new(iface, display_size); no TerminalMode in use.
InitFb ==
    /\ display_size \in FbSizes
    /\ buffer = SSD1306_new(display_size).buffer
    /\ iface = SSD1306_new(display_size).iface
    /\ buffer_before = buffer
    /\ fbcall = FbCall("new", 0, 0, 0, "ok")
    /\ size = display_size
    /\ cursor = NoCursor
    /\ before = NoCursor
    /\ dev = DevReset
    /\ op = OpRec("new", "", 0, 0, <<>>)
    /\ result = [ok |-> TRUE, val |-> NoVal]
    /\ log = <<>>
    /\ inner = <<>>
    /\ stale = 0

SetPixelOp ==
    /\ fbcall.outcome # "panic"
    /\ \E p \in PixelArgs(display_size), value \in PixelValues :
        FbFinish(SSD1306_set_pixel(FbStart, p[1], p[2], value),
                 "set_pixel", p[1], p[2], value)

FbClearOp ==
    /\ fbcall.outcome # "panic"
    /\ FbFinish(SSD1306_clear(FbStart), "clear", 0, 0, 0)

FlushOp ==
    /\ fbcall.outcome # "panic"
    /\ FbFinish(SSD1306_flush(FbStart), "flush", 0, 0, 0)

FbInitOp ==
    /\ fbcall.outcome # "panic"
    /\ FbFinish(SSD1306_init(FbStart), "init", 0, 0, 0)

NextFb ==
    \/ SetPixelOp
    \/ FbClearOp
    \/ FlushOp
    \/ FbInitOp

SpecFb == InitFb /\ [][NextFb]_vars

----------------------------------------------------------------------------
(* Properties.                                                             *)

\* The character grid of a display: its pixel width and height over 8.
GridW == get_dimensions(size)[1] \div 8
GridH == get_dimensions(size)[2] \div 8

\* The last call was print_char(c) / set_position, made with a cursor.
Printed(c)   == op.name = "print_char" /\ op.c = c
Draws(l)     == {i \in DOMAIN l : l[i].call = "draw"}

\* C1: once the cursor exists it lies inside the character grid of the
\* display, 0 <= column < pixel width / 8 and 0 <= row < pixel height / 8,
\* after every call.
C1_CursorInGrid ==
    cursor.some =>
        /\ cursor.width = GridW /\ cursor.height = GridH
        /\ cursor.col \in 0 .. GridW - 1
        /\ cursor.row \in 0 .. GridH - 1

\* C1 witness: a rejected set_position with the cursor on the last cell.
C1_Witness ==
    /\ op.name = "set_position" /\ ~result.ok
    /\ cursor.some /\ cursor.col = GridW - 1 /\ cursor.row = GridH - 1

\* C2 (as claimed): while no transport write has failed since the cursor was
\* last reset, the controller is in Page mode and its write pointer is at
\* column 8 * cursor.col of page cursor.row after every call, on every
\* display size.
C2_PointerFollowsCursor ==
    (cursor.some /\ stale = 0) =>
        /\ dev.mode = "Page"
        /\ dev.col = 8 * cursor.col
        /\ dev.page = cursor.row

\* C3: set_position with column >= grid width or row >= grid height returns
\* an error, leaves the cursor as it was and makes no call on the display.
C3_OutOfRangeRejected ==
    (op.name = "set_position" /\ (op.col >= GridW \/ op.row >= GridH)) =>
        /\ ~result.ok
        /\ cursor = before
        /\ log = <<>>

\* C3 witness: set_position(width, 0) refused with the cursor away from the
\* origin.
C3_Witness ==
    /\ op.name = "set_position" /\ op.col = GridW /\ op.row = 0
    /\ ~result.ok /\ log = <<>>
    /\ before.some /\ before.col > 0 /\ before.row > 0 /\ cursor = before

\* C4: the advance() that follows a drawn glyph takes the cursor from (c, r)
\* to column (c + 1) mod W; when that is 0 the row becomes (r + 1) mod H and
\* the wrap is reported with exactly that row (the row command that
\* print_char then sends carries 8 times it); otherwise the row stays and
\* nothing is reported (no further call is made).
C4_AdvanceWraps ==
    (Printed("A") /\ before.some /\ log[1].ok) =>
        LET col == (before.col + 1) % GridW
            row == (before.row + 1) % GridH
        IN  /\ cursor.col = col
            /\ col = 0 => /\ cursor.row = row
                          /\ Len(log) = 2
                          /\ log[2].call = "set_row" /\ log[2].v = 8 * row
            /\ col # 0 => /\ cursor.row = before.row
                          /\ Len(log) = 1

\* C4 witness: a glyph printed on the last cell of the grid takes the
\* cursor back to (0, 0) and reports row 0.
C4_Witness ==
    /\ Printed("A") /\ result.ok
    /\ before.some /\ before.col = GridW - 1 /\ before.row = GridH - 1
    /\ cursor.col = 0 /\ cursor.row = 0
    /\ Len(log) = 2 /\ log[2].call = "set_row" /\ log[2].v = 0

\* C5: a newline printed at column c of row r, with no transport failure,
\* draws exactly W - c glyphs, all of them eight zero bytes, and leaves the
\* cursor at column 0 of row (r + 1) mod H.
C5_NewlinePads ==
    (Printed("\n") /\ before.some /\ ~TransportFailed(log)) =>
        /\ result.ok
        /\ Cardinality(Draws(log)) = GridW - before.col
        /\ \A i \in Draws(log) : log[i].data = Blank
        /\ cursor.col = 0
        /\ cursor.row = (before.row + 1) % GridH

\* C5 witness: a newline at column 0 draws a whole row of blanks and moves
\* down one row.
C5_Witness ==
    /\ Printed("\n") /\ result.ok
    /\ before.some /\ before.col = 0 /\ before.row = 0
    /\ Cardinality(Draws(log)) = GridW
    /\ cursor.col = 0 /\ cursor.row = 1

\* C6: a carriage return printed with a cursor at (c, r) makes exactly one
\* call on the display, the column pointer set to 0; the row is unchanged,
\* and when that write goes through the call succeeds with the cursor at
\* (0, r).
C6_CarriageReturn ==
    (Printed("\r") /\ before.some) =>
        /\ Len(log) = 1
        /\ log[1].call = "set_column" /\ log[1].v = 0
        /\ cursor.row = before.row
        /\ log[1].ok => (result.ok /\ cursor.col = 0)

\* C6 witness: a carriage return in the middle of a row other than row 0.
C6_Witness ==
    /\ Printed("\r") /\ result.ok
    /\ before.some /\ before.col > 0 /\ before.row > 0
    /\ cursor.col = 0 /\ cursor.row = before.row
    /\ log = <<CSetColumn(0)>>

\* C7: set_position(col, row) inside the grid, with a cursor and no
\* transport failure, sets the column pointer to col * 8 and the row pointer
\* to row * 8, succeeds, and get_position then returns (col, row).
C7_SetPositionRoundTrip ==
    (/\ op.name = "set_position" /\ before.some
     /\ op.col < GridW /\ op.row < GridH
     /\ ~TransportFailed(log)) =>
        /\ log = <<CSetColumn(op.col * 8), CSetRow(op.row * 8)>>
        /\ result.ok
        /\ get_position([cursor |-> cursor, dev |-> dev, log |-> <<>>])
              = [ok |-> TRUE, val |-> <<op.col, op.row>>]

\* C7 witness: the cursor moved from elsewhere to the last cell of the grid.
C7_Witness ==
    /\ op.name = "set_position" /\ result.ok
    /\ op.col = GridW - 1 /\ op.row = GridH - 1
    /\ before.some /\ before.col # op.col /\ before.row # op.row
    /\ cursor.col = op.col /\ cursor.row = op.row

\* C8 (as claimed): when a print_char made by write_str fails, write_str
\* returns an error.
C8_WriteStrPropagates ==
    (op.name = "write_str" /\ \E i \in DOMAIN inner : ~inner[i]) => ~result.ok

\* C9 (as claimed): in every call, write_str included, a transport write
\* that fails is the last write the call attempts.
C9_AbortAtFirstFailure ==
    \A i \in DOMAIN log : ~log[i].ok => i = Len(log)

\* C10: while there is no cursor, get_position, set_position and print_char
\* of a glyph, a newline or a carriage return return an error and leave the
\* display without a cursor.
C10_NoCursorFails ==
    (op.name \in {"get_position", "set_position", "print_char"} /\ ~before.some) =>
        /\ ~result.ok
        /\ ~cursor.some

\* C10 witness: a carriage return printed before init.
C10_Witness ==
    /\ Printed("\r") /\ ~before.some
    /\ ~result.ok /\ ~cursor.some
    /\ ~TransportFailed(log)

\* C11: clear() with no transport failure switches to Horizontal mode (and
\* sets the draw area to the whole display), draws exactly grid width *
\* grid height blocks of eight zero bytes, switches to Page mode, resets
\* the position, in this order, and ends with the cursor at (0, 0).
C11_ClearSequence ==
    (op.name = "clear" /\ ~TransportFailed(log)) =>
        LET d == get_dimensions(size)
        IN  /\ log = <<CChangeMode("Horizontal"), CSetDrawArea(d[1], d[2])>>
                     \o [i \in 1 .. GridW * GridH |-> CDraw(Blank)]
                     \o <<CChangeMode("Page"), CSetColumn(0), CSetRow(0)>>
            /\ result.ok
            /\ cursor.some /\ cursor.col = 0 /\ cursor.row = 0

\* C11 witness: the 96x16 display cleared, 24 blank cells, with the cursor
\* away from the origin before.
C11_Witness ==
    /\ op.name = "clear" /\ result.ok /\ size = "Display96x16"
    /\ Cardinality(Draws(log)) = 24
    /\ before.some /\ before.col > 0 /\ before.row > 0
    /\ cursor.col = 0 /\ cursor.row = 0

FbW == dimensions(display_size)[1]
FbH == dimensions(display_size)[2]
SetPixelCalled == fbcall.name = "set_pixel"
ValidPixel == fbcall.x < FbW /\ fbcall.y < FbH

\* Reading pixel (x, y) of a buffer: page y / 8, column x, bit y mod 8, bit
\* 0 topmost.
PixelAt(buf, x, y) == BitOf(buf[(y \div 8) * FbW + x], y % 8)

\* C13: for a valid (x, y), set_pixel with a nonzero value makes the pixel
\* read nonzero and set_pixel with 0 makes it read zero, and every other
\* bit of every byte of the buffer keeps its value.
C13_SetClearNoCrossTalk ==
    (SetPixelCalled /\ ValidPixel) =>
        LET idx == (fbcall.y \div 8) * FbW + fbcall.x
            k   == fbcall.y % 8
        IN  /\ fbcall.outcome = "ok"
            /\ fbcall.value # 0 => PixelAt(buffer, fbcall.x, fbcall.y) # 0
            /\ fbcall.value = 0 => PixelAt(buffer, fbcall.x, fbcall.y) = 0
            /\ \A i \in (0 .. BufLen - 1) \ {idx} : buffer[i] = buffer_before[i]
            /\ \A j \in (0 .. 7) \ {k} :
                  BitOf(buffer[idx], j) = BitOf(buffer_before[idx], j)

\* C13 witness: a set pixel is cleared while the other set pixel of the same
\* byte stays set.
C13_Witness ==
    /\ SetPixelCalled /\ ValidPixel /\ fbcall.outcome = "ok"
    /\ fbcall.value = 0 /\ fbcall.x = 5 /\ fbcall.y = 10
    /\ PixelAt(buffer_before, 5, 10) = 1 /\ PixelAt(buffer, 5, 10) = 0
    /\ PixelAt(buffer_before, 5, 13) = 1 /\ PixelAt(buffer, 5, 13) = 1

\* C14: for a valid (x, y), set_pixel changes nothing but bit y mod 8 of
\* the byte at index (y div 8) * width + x, which is 1 after a nonzero value
\* and 0 after the value 0; the index lies inside the first
\* width * height / 8 bytes; (5, 10) on 128x64 is bit 2 of byte 133.
C14_ByteAndBit ==
    (SetPixelCalled /\ ValidPixel) =>
        LET idx == (fbcall.y \div 8) * FbW + fbcall.x
            k   == fbcall.y % 8
            v   == IF fbcall.value # 0 THEN 1 ELSE 0
        IN  /\ idx >= 0 /\ idx < (FbW * FbH) \div 8
            /\ \A i \in 0 .. BufLen - 1 : buffer[i] # buffer_before[i] => i = idx
            /\ buffer[idx] = buffer_before[idx]
                             + (v - BitOf(buffer_before[idx], k)) * (2 ^ k)
            /\ (display_size = "Display128x64" /\ fbcall.x = 5 /\ fbcall.y = 10) =>
                  /\ idx = 133 /\ k = 2
                  /\ (buffer[133] \div 4) % 2 = v

\* C14 witness: set_pixel(5, 10, 255) on the empty 128x64 buffer makes byte
\* 133 equal to 4.
C14_Witness ==
    /\ SetPixelCalled /\ display_size = "Display128x64"
    /\ fbcall.x = 5 /\ fbcall.y = 10 /\ fbcall.value = 255
    /\ buffer_before = ZeroBuffer
    /\ buffer = [ZeroBuffer EXCEPT ![133] = 4]

\* C15: set_pixel with x >= width or y >= height fails with an
\* InvalidCoordinate error and leaves every byte of the buffer as it was.
C15_OutOfRangeRejected ==
    (SetPixelCalled /\ ~ValidPixel) =>
        /\ fbcall.outcome = "InvalidCoordinate"
        /\ buffer = buffer_before

\* C16: flush() sends the column address range [0, width - 1], the page
\* address range [0, height / 8 - 1] and then one data block holding the
\* first width * height / 8 bytes of the buffer (1024 on 128x64, 512 on
\* 128x32), nothing else, and leaves the buffer as it was.
C16_FlushSequence ==
    (fbcall.name = "flush") =>
        LET n == (FbW * FbH) \div 8
        IN  /\ iface = << Cmd("ColumnAddress", <<0, FbW - 1>>),
                          Cmd("PageAddress", <<0, (FbH \div 8) - 1>>),
                          Data([i \in 1 .. n |-> buffer_before[i - 1]]) >>
            /\ n = (IF display_size = "Display128x64" THEN 1024 ELSE 512)
            /\ buffer = buffer_before
            /\ fbcall.outcome = "ok"

\* C16 witness: a 128x32 buffer with pixels set, and a byte set past its
\* first 512, is flushed as 512 bytes.
C16_Witness ==
    /\ fbcall.name = "flush" /\ display_size = "Display128x32"
    /\ buffer[133] = 4 /\ buffer[512] = 1
    /\ Len(iface) = 3 /\ Len(iface[3].data) = 512
    /\ iface[3].data[134] = 4

\* C17: init() sends DisplayOn(false) first and DisplayOn(true) last, and
\* the addressing mode, the segment remap, the COM direction and the COM
\* pin configuration of the geometry all before DisplayOn(true).
C17_InitOrder ==
    (fbcall.name = "init") =>
        LET n  == Len(iface)
            on == {i \in 1 .. n : iface[i].cmd = "DisplayOn" /\ iface[i].params = <<TRUE>>}
        IN  /\ n >= 2
            /\ iface[1].cmd = "DisplayOn" /\ iface[1].params = <<FALSE>>
            /\ on = {n}
            /\ \A c \in {"AddressMode", "SegmentRemap", "ReverseComDir", "ComPinConfig"} :
                  \E i \in 2 .. n - 1 : iface[i].cmd = c
            /\ \A i \in 1 .. n :
                  iface[i].cmd = "ComPinConfig" =>
                      iface[i].params = <<display_size = "Display128x64", FALSE>>

\* C17 witness: init() of the 128x32 display: seventeen commands, the COM
\* pin configuration the tenth.
C17_Witness ==
    /\ fbcall.name = "init" /\ display_size = "Display128x32"
    /\ Len(iface) = 17
    /\ iface[10].cmd = "ComPinConfig" /\ iface[10].params = <<FALSE, FALSE>>
    /\ iface[17].cmd = "DisplayOn" /\ iface[17].params = <<TRUE>>

\* C18: the framebuffer's clear() leaves every byte of the buffer zero,
\* whatever was drawn, and sends nothing.
C18_ClearZeroes ==
    (fbcall.name = "clear") =>
        /\ \A i \in 0 .. BufLen - 1 : buffer[i] = 0
        /\ iface = <<>>
        /\ fbcall.outcome = "ok"

\* C18 witness: a clear() of a 128x32 buffer with a pixel set and a byte set
\* past its first 512.
C18_Witness ==
    /\ fbcall.name = "clear" /\ display_size = "Display128x32"
    /\ buffer_before[133] = 4 /\ buffer_before[512] = 1
    /\ buffer = ZeroBuffer

\* C19: a glyph printed with a cursor and no transport failure makes one
\* draw of its eight bytes, followed by a row pointer of 8 * the new row
\* exactly when the cursor column wrapped to 0, and no other call; no
\* column pointer is sent on the wrap.
C19_GlyphWrites ==
    (Printed("A") /\ before.some /\ ~TransportFailed(log)) =>
        /\ result.ok
        /\ log = <<CDraw(to_bitmap("A").bytes)>>
                 \o (IF cursor.col = 0 THEN <<CSetRow(8 * cursor.row)>> ELSE <<>>)
        /\ Len(log[1].data) = 8

\* C19 witness: a glyph on the last column of row 0 is followed by the row
\* pointer for row 1.
C19_Witness ==
    /\ Printed("A") /\ result.ok
    /\ before.some /\ before.col = GridW - 1 /\ before.row = 0
    /\ log = <<CDraw(to_bitmap("A").bytes), CSetRow(8)>>

\* C20: once init() has succeeded, every print_char that draws does so with
\* the controller in Page addressing mode, a print_char that follows a
\* clear() cut short by a transport failure included.
C20_PageModeWhenPrinting ==
    (op.name = "print_char" /\ before.some
        /\ \E i \in Draws(log) : log[i].ok) =>
        dev.mode = "Page"

\* C21: print_char and set_position called with no cursor fail and make no
\* call on the display: no command and no data is handed to the transport.
C21_NoCursorNoWrite ==
    (op.name \in {"print_char", "set_position"} /\ ~before.some) =>
        /\ ~result.ok
        /\ log = <<>>

\* The largest value of a u8.
U8Max == 255

\* C22: in every reachable cursor state, on every display size, the 8-bit
\* arithmetic of the cursor path stays within 0 .. 255: col + 1 and row + 1
\* in advance, width - col in get_remaining_columns_in_line, width - 1 and
\* height - 1 in Cursor::set_position, and the pointers column * 8, row * 8
\* and new_row * 8; the pointers sent are the unwrapped products.
C22_NoU8Overflow ==
    /\ cursor.some =>
          /\ cursor.col + 1 <= U8Max /\ cursor.row + 1 <= U8Max
          /\ cursor.width - cursor.col >= 0
          /\ cursor.width - 1 >= 0 /\ cursor.height - 1 >= 0
          /\ Cursor_advance(cursor).cursor.row * 8 <= U8Max
          /\ \A column \in 0 .. U8Max :
                column < cursor.width => column * 8 <= U8Max
          /\ \A row \in 0 .. U8Max :
                row < cursor.height => row * 8 <= U8Max
    /\ (op.name = "set_position" /\ before.some /\ Len(log) >= 1) =>
          log[1].v = op.col * 8
    /\ (op.name = "set_position" /\ before.some /\ Len(log) >= 2) =>
          log[2].v = op.row * 8
    /\ (Printed("A") /\ before.some /\ Len(log) = 2) =>
          log[2].v = ((before.row + 1) % before.height) * 8

\* C22 witness: set_position to the last cell of the 128x64 grid, the
\* largest pointers there are: column 120 and row 56.
C22_Witness ==
    /\ op.name = "set_position" /\ result.ok /\ size = "Display128x64"
    /\ op.col = 15 /\ op.row = 7
    /\ cursor.col = 15 /\ cursor.row = 7
    /\ log = <<CSetColumn(120), CSetRow(56)>>

====
